---- MODULE Spec2Model ----
(***************************************************************************)
(* PC Builder Simulator API: the compatibility engine                      *)
(* (estimate_power_and_validate, src/main.py:38-103) and the request       *)
(* handler that feeds it (evaluate_build, src/main.py:173-201).            *)
(*                                                                         *)
(* Python values are modelled with their run-time type, because the code   *)
(* tests them by truthiness (`if cpu and cpu.get("tdp")`) and coerces them *)
(* with int() / float(): a value is a record [t, i, s] with t the type     *)
(* ("int", "str" or "none"), i the integer and s the string.               *)
(***************************************************************************)
EXTENDS Integers, Sequences, FiniteSets, TLC

VARIABLES
    components,   \* Dict[str, dict]: category -> component record
    result,       \* what estimate_power_and_validate returned or raised
    pc,           \* position of the call / of the request handler
    db_ok,        \* evaluate_build: db is not None
    req,          \* evaluate_build: req.selections, in iteration order
    idx,          \* evaluate_build: position of the for loop in req
    total_price,  \* evaluate_build: running float total, in thousandths
    response      \* evaluate_build: the HTTP response of the request

vars == <<components, result, pc, db_ok, req, idx, total_price, response>>

----------------------------------------------------------------------------
(* Python values *)

PyInt(n) == [t |-> "int", i |-> n, s |-> ""]
PyStr(x) == [t |-> "str", i |-> 0, s |-> x]
PyNone == [t |-> "none", i |-> 0, s |-> ""]

\* bool(v): 0, "" and None are falsy.
Truthy(v) ==
    IF v.t = "int" THEN v.i # 0
    ELSE IF v.t = "str" THEN v.s # ""
    ELSE FALSE

\* a != b on Python values: values of different types are unequal.
PyNotEqual(a, b) == ~(a.t = b.t /\ a.i = b.i /\ a.s = b.s)

\* The strings of the model that int() parses, with their values.
Numerals == {"650"}
NumeralValue(x) == CASE x = "650" -> 650 [] OTHER -> 0

\* int(v) succeeds: an int, or a string holding a decimal literal.
\* int("abc") raises ValueError, int(None) raises TypeError.
CanInt(v) ==
    IF v.t = "int" THEN TRUE
    ELSE IF v.t = "str" THEN v.s \in Numerals
    ELSE FALSE

\* int(v) where CanInt(v); the engine reads it nowhere else, because an
\* int() that raises ends the call (Raises below).
IntOf(v) == IF v.t = "int" THEN v.i ELSE NumeralValue(v.s)

\* d.get(k) on a component record.
Get(d, k) == IF k \in DOMAIN d THEN d[k] ELSE PyNone

\* components.get(c) followed by `if x`: None and {} are both falsy.
DictTruthy(comps, c) == c \in DOMAIN comps /\ DOMAIN comps[c] # {}

\* components.get(c).get(f), read by the code only under `if x`.
Field(comps, c, f) == IF c \in DOMAIN comps THEN Get(comps[c], f) ELSE PyNone

\* int(total_tdp * 1.5): the float product is exact for these magnitudes
\* and int() truncates toward zero.
IntOfTimesOnePointFive(n) ==
    IF n >= 0 THEN (3 * n) \div 2 ELSE -((3 * (-n)) \div 2)

----------------------------------------------------------------------------
(* estimate_power_and_validate *)

BaselineW == 75

HasCpuTdp(comps) == DictTruthy(comps, "CPU") /\ Truthy(Field(comps, "CPU", "tdp"))
HasGpuTdp(comps) == DictTruthy(comps, "GPU") /\ Truthy(Field(comps, "GPU", "tdp"))

\* The baseline without the `if cpu` test of line 58.
AlwaysBaseline(comps) == BaselineW
\* Lines 57-59: 75 W for the other parts if there is a CPU.
Baseline(comps) == IF DictTruthy(comps, "CPU") THEN BaselineW ELSE 0

TotalTdp(comps) ==
    (IF HasCpuTdp(comps) THEN IntOf(Field(comps, "CPU", "tdp")) ELSE 0)
    + (IF HasGpuTdp(comps) THEN IntOf(Field(comps, "GPU", "tdp")) ELSE 0)
    + Baseline(comps)

MsgSocket == "CPU and Motherboard sockets do not match"
MsgRamType == "RAM type incompatible with Motherboard"
MsgRamSpeed == "RAM speed exceeds motherboard maximum"
MsgPsu(required) ==
    "PSU wattage may be insufficient (needs ~" \o ToString(required) \o "W)"
MsgGpuLength == "GPU may not fit in the case (length)"
MsgCoolerHeight == "Cooler may be too tall for the case"
MsgCoolerTdp == "Cooler TDP rating may be insufficient for CPU"

\* The socket guard without the two .get("socket") tests of line 63.
SocketCheckedNoPresence(comps) ==
    DictTruthy(comps, "CPU") /\ DictTruthy(comps, "Motherboard")

\* The guard of each rule: the conditions under which its comparison runs.
SocketChecked(comps) ==
    /\ DictTruthy(comps, "CPU") /\ DictTruthy(comps, "Motherboard")
    /\ Truthy(Field(comps, "CPU", "socket"))
    /\ Truthy(Field(comps, "Motherboard", "socket"))

RamTypeChecked(comps) ==
    /\ DictTruthy(comps, "Motherboard") /\ DictTruthy(comps, "RAM")
    /\ Truthy(Field(comps, "Motherboard", "ram_type"))
    /\ Truthy(Field(comps, "RAM", "ram_type"))

RamSpeedChecked(comps) ==
    /\ DictTruthy(comps, "Motherboard") /\ DictTruthy(comps, "RAM")
    /\ Truthy(Field(comps, "Motherboard", "ram_speed"))
    /\ Truthy(Field(comps, "RAM", "ram_speed"))

PsuChecked(comps) ==
    DictTruthy(comps, "PSU") /\ Truthy(Field(comps, "PSU", "psu_wattage"))

GpuLengthChecked(comps) ==
    /\ DictTruthy(comps, "Case") /\ DictTruthy(comps, "GPU")
    /\ Truthy(Field(comps, "Case", "case_gpu_max_length_mm"))
    /\ Truthy(Field(comps, "GPU", "gpu_length_mm"))

CoolerHeightChecked(comps) ==
    /\ DictTruthy(comps, "Case") /\ DictTruthy(comps, "Cooler")
    /\ Truthy(Field(comps, "Case", "case_cooler_max_height_mm"))
    /\ Truthy(Field(comps, "Cooler", "cooler_height_mm"))

CoolerTdpChecked(comps) ==
    /\ DictTruthy(comps, "Cooler") /\ DictTruthy(comps, "CPU")
    /\ Truthy(Field(comps, "Cooler", "cooler_tdp_rating"))
    /\ Truthy(Field(comps, "CPU", "tdp"))

\* The values the call passes to int(), over the whole body.
Coerced(comps) ==
    (IF HasCpuTdp(comps) THEN {Field(comps, "CPU", "tdp")} ELSE {})
    \cup (IF HasGpuTdp(comps) THEN {Field(comps, "GPU", "tdp")} ELSE {})
    \cup (IF RamSpeedChecked(comps)
          THEN {Field(comps, "RAM", "ram_speed"),
                Field(comps, "Motherboard", "ram_speed")}
          ELSE {})
    \cup (IF PsuChecked(comps) THEN {Field(comps, "PSU", "psu_wattage")} ELSE {})
    \cup (IF GpuLengthChecked(comps)
          THEN {Field(comps, "GPU", "gpu_length_mm"),
                Field(comps, "Case", "case_gpu_max_length_mm")}
          ELSE {})
    \cup (IF CoolerHeightChecked(comps)
          THEN {Field(comps, "Cooler", "cooler_height_mm"),
                Field(comps, "Case", "case_cooler_max_height_mm")}
          ELSE {})
    \cup (IF CoolerTdpChecked(comps)
          THEN {Field(comps, "Cooler", "cooler_tdp_rating"),
                Field(comps, "CPU", "tdp")}
          ELSE {})

\* The call with every int() failure swallowed.
NeverRaises(comps) == FALSE
\* Some int() of the call raises: the exception leaves the function.
Raises(comps) == \E v \in Coerced(comps) : ~CanInt(v)

Required(comps) == IntOfTimesOnePointFive(TotalTdp(comps))

\* Each rule's `if`, all of it; evaluated only when nothing raised.
SocketIssue(comps) ==
    /\ SocketChecked(comps)
    /\ PyNotEqual(Field(comps, "CPU", "socket"), Field(comps, "Motherboard", "socket"))

RamTypeIssue(comps) ==
    /\ RamTypeChecked(comps)
    /\ PyNotEqual(Field(comps, "Motherboard", "ram_type"), Field(comps, "RAM", "ram_type"))

RamSpeedIssue(comps) ==
    /\ RamSpeedChecked(comps)
    /\ IntOf(Field(comps, "RAM", "ram_speed"))
         > IntOf(Field(comps, "Motherboard", "ram_speed"))

PsuIssue(comps) ==
    /\ PsuChecked(comps)
    /\ IntOf(Field(comps, "PSU", "psu_wattage")) < Required(comps)

GpuLengthIssue(comps) ==
    /\ GpuLengthChecked(comps)
    /\ IntOf(Field(comps, "GPU", "gpu_length_mm"))
         > IntOf(Field(comps, "Case", "case_gpu_max_length_mm"))

CoolerHeightIssue(comps) ==
    /\ CoolerHeightChecked(comps)
    /\ IntOf(Field(comps, "Cooler", "cooler_height_mm"))
         > IntOf(Field(comps, "Case", "case_cooler_max_height_mm"))

CoolerTdpIssue(comps) ==
    /\ CoolerTdpChecked(comps)
    /\ IntOf(Field(comps, "Cooler", "cooler_tdp_rating"))
         < IntOf(Field(comps, "CPU", "tdp"))

If(cond, msg) == IF cond THEN <<msg>> ELSE <<>>

\* The issues list after the seven appends, in the order of the body.
Issues(comps) ==
    If(SocketIssue(comps), MsgSocket)
    \o If(RamTypeIssue(comps), MsgRamType)
    \o If(RamSpeedIssue(comps), MsgRamSpeed)
    \o If(PsuIssue(comps), MsgPsu(Required(comps)))
    \o If(GpuLengthIssue(comps), MsgGpuLength)
    \o If(CoolerHeightIssue(comps), MsgCoolerHeight)
    \o If(CoolerTdpIssue(comps), MsgCoolerTdp)

\* is_valid without the len(issues) == 0 test of line 100.
IsValidAlways(issues) == TRUE
\* Line 100.
IsValid(issues) == Len(issues) = 0

NoResult ==
    [status |-> "none", is_valid |-> FALSE, issues |-> <<>>, estimated_power_w |-> 0]
RaisedResult ==
    [status |-> "raised", is_valid |-> FALSE, issues |-> <<>>, estimated_power_w |-> 0]

estimate_power_and_validate(comps) ==
    IF Raises(comps)
    THEN RaisedResult
    ELSE [status |-> "returned",
          is_valid |-> IsValid(Issues(comps)),
          issues |-> Issues(comps),
          estimated_power_w |-> TotalTdp(comps)]

----------------------------------------------------------------------------
(* The selections the engine is called with *)

Categories ==
    <<"CPU", "GPU", "Motherboard", "RAM", "Storage", "PSU", "Case", "Cooler">>

\* At most this many categories are selected in a build.
MaxSelected == 4

Fields(cat) ==
    CASE cat = "CPU" -> {"socket", "tdp"}
      [] cat = "GPU" -> {"tdp", "gpu_length_mm"}
      [] cat = "Motherboard" -> {"socket", "ram_type", "ram_speed"}
      [] cat = "RAM" -> {"ram_type", "ram_speed"}
      [] cat = "Storage" -> {"name"}
      [] cat = "PSU" -> {"psu_wattage"}
      [] cat = "Case" -> {"case_gpu_max_length_mm", "case_cooler_max_height_mm"}
      [] cat = "Cooler" -> {"cooler_tdp_rating", "cooler_height_mm"}

\* The values a present field takes: values of the kind the seed catalog
\* holds (src/main.py:138-162), and beside them 0, a negative number, a
\* numeral string and strings int() rejects.
FieldValues(cat, f) ==
    CASE cat = "CPU" /\ f = "socket" -> {PyStr("AM4"), PyStr("LGA1700")}
      [] cat = "CPU" /\ f = "tdp" -> {PyInt(65), PyInt(-100), PyStr("abc")}
      [] cat = "GPU" /\ f = "tdp" -> {PyInt(230)}
      [] cat = "GPU" /\ f = "gpu_length_mm" -> {PyInt(242), PyInt(300), PyStr("long")}
      [] cat = "Motherboard" /\ f = "socket" -> {PyStr("AM4")}
      [] cat = "Motherboard" /\ f = "ram_type" -> {PyStr("DDR4")}
      [] cat = "Motherboard" /\ f = "ram_speed" -> {PyInt(4400)}
      [] cat = "RAM" /\ f = "ram_type" -> {PyStr("DDR4"), PyStr("DDR5")}
      [] cat = "RAM" /\ f = "ram_speed" -> {PyInt(3200), PyInt(5600), PyStr("fast")}
      [] cat = "Storage" /\ f = "name" -> {PyStr("Seagate Barracuda 2TB")}
      [] cat = "PSU" /\ f = "psu_wattage" -> {PyInt(0), PyInt(300), PyStr("650")}
      [] cat = "Case" /\ f = "case_gpu_max_length_mm" -> {PyInt(280)}
      [] cat = "Case" /\ f = "case_cooler_max_height_mm" -> {PyInt(160)}
      [] cat = "Cooler" /\ f = "cooler_tdp_rating" -> {PyInt(0), PyInt(120)}
      [] cat = "Cooler" /\ f = "cooler_height_mm" -> {PyInt(159), PyInt(165)}

ValuesOf(cat) == UNION {FieldValues(cat, f) : f \in Fields(cat)}
AllValues == UNION {ValuesOf(Categories[n]) : n \in 1..Len(Categories)}

\* The records of a category: every subset of its fields, each present
\* field with one of its values.
Records(cat) ==
    UNION {{r \in [F -> AllValues] : \A f \in F : r[f] \in FieldValues(cat, f)} :
             F \in SUBSET Fields(cat)}

\* The catalog of the model: the records of every category.
Catalog == [n \in 1..Len(Categories) |-> Records(Categories[n])]
CatalogOf(cat) == Catalog[CHOOSE n \in 1..Len(Categories) : Categories[n] = cat]

Put(d, k, v) == [x \in DOMAIN d \cup {k} |-> IF x = k THEN v ELSE d[x]]

\* The choice "this category is not selected".
Unselected == [unselected |-> PyNone]

\* What the next category may hold, given the selection so far.
Choices(cat, d) ==
    IF Cardinality(DOMAIN d) < MaxSelected
    THEN {Unselected} \cup CatalogOf(cat)
    ELSE {Unselected}

With(d, cat, r) == IF r = Unselected THEN d ELSE Put(d, cat, r)

\* comps is a selection: at most MaxSelected categories, each with one of
\* its records.
IsSelection(comps) ==
    \E r1 \in Choices("CPU", <<>>) :
    LET d1 == With(<<>>, "CPU", r1) IN
    \E r2 \in Choices("GPU", d1) :
    LET d2 == With(d1, "GPU", r2) IN
    \E r3 \in Choices("Motherboard", d2) :
    LET d3 == With(d2, "Motherboard", r3) IN
    \E r4 \in Choices("RAM", d3) :
    LET d4 == With(d3, "RAM", r4) IN
    \E r5 \in Choices("Storage", d4) :
    LET d5 == With(d4, "Storage", r5) IN
    \E r6 \in Choices("PSU", d5) :
    LET d6 == With(d5, "PSU", r6) IN
    \E r7 \in Choices("Case", d6) :
    LET d7 == With(d6, "Case", r7) IN
    \E r8 \in Choices("Cooler", d7) :
    comps = With(d7, "Cooler", r8)

----------------------------------------------------------------------------
(* A call of the engine on a selection *)

\* No response yet; an error response carries only its status and detail.
NoResponse == [status |-> 0, detail |-> "", total_price |-> 0,
               estimated_power_w |-> 0, is_valid |-> FALSE, issues |-> <<>>]

Init ==
    /\ IsSelection(components)
    /\ result = NoResult
    /\ pc = "call"
    /\ db_ok = TRUE
    /\ req = <<>>
    /\ idx = 0
    /\ total_price = 0
    /\ response = NoResponse

Evaluate ==
    /\ pc = "call"
    /\ result' = estimate_power_and_validate(components)
    /\ pc' = "done"
    /\ UNCHANGED <<components, db_ok, req, idx, total_price, response>>

Next == Evaluate

Spec == Init /\ [][Next]_vars

----------------------------------------------------------------------------
(* evaluate_build *)

PyFloat(thousandths) == [t |-> "float", i |-> thousandths, s |-> ""]
PyObjectId(x) == [t |-> "ObjectId", i |-> 0, s |-> x]

\* float(v) succeeds; float("n/a") raises ValueError.
CanFloat(v) == v.t \in {"float", "int"}

\* The identifier strings of the model: one ObjectId() rejects, one that
\* is well formed and names no document, and the documents' own.
IdMalformed == "not-an-object-id"
IdMissing == "650000000000000000000000"
IdCpu == "650000000000000000000001"
IdBoard == "650000000000000000000002"
IdGpu == "650000000000000000000003"
IdCase == "650000000000000000000004"
IdStrings == {IdMalformed, IdMissing, IdCpu, IdBoard, IdGpu, IdCase}

\* ObjectId(id_str) does not raise.
ObjectIdParses(id_str) == id_str # IdMalformed

\* db["component"]: prices are floats, held in thousandths.
Collection ==
    [id \in {IdCpu, IdBoard, IdGpu, IdCase} |->
        CASE id = IdCpu ->
               [_id |-> PyObjectId(IdCpu), price |-> PyFloat(139000),
                socket |-> PyStr("AM4"), tdp |-> PyInt(65)]
          [] id = IdBoard ->
               [_id |-> PyObjectId(IdBoard), price |-> PyFloat(119005),
                socket |-> PyStr("LGA1700")]
          [] id = IdGpu ->
               [_id |-> PyObjectId(IdGpu), tdp |-> PyStr("abc")]
          [] id = IdCase ->
               [_id |-> PyObjectId(IdCase), price |-> PyStr("n/a")]]

\* db["component"].find_one({"_id": obj_id}): the document, or None, which
\* like {} is falsy and is held as the empty record.
FindOne(id_str) == IF id_str \in DOMAIN Collection THEN Collection[id_str] ELSE <<>>

serialize_doc(doc) ==
    IF DOMAIN doc = {} THEN doc
    ELSE [k \in DOMAIN doc |-> IF k = "_id" THEN PyStr(doc[k].s) ELSE doc[k]]

\* doc.get("price", 0.0)
PriceOf(doc) == IF "price" \in DOMAIN doc THEN doc["price"] ELSE PyFloat(0)

\* The loop without its two lookup checks (lines 183-189).
LookupStatusUnchecked(id_str) == 0
\* The HTTPException one loop iteration raises for id_str, or 0.
LookupStatus(id_str) ==
    IF ~ObjectIdParses(id_str) THEN 400
    ELSE IF DOMAIN FindOne(id_str) = {} THEN 404
    ELSE 0

\* round(total_price, 2) in thousandths: the nearest hundredth. A decimal
\* tie is decided by the binary expansion of the float sum, which the
\* thousandths do not hold: either neighbour.
Round2(m) ==
    LET r == m % 10 IN
    IF r < 5 THEN {m - r}
    ELSE IF r > 5 THEN {m - r + 10}
    ELSE {m - 5, m + 5}

\* The category names a request may use as keys.
KeyNames == {"CPU", "GPU", "Motherboard", "Case"}

\* At most this many entries in req.selections.
MaxSelections == 3

DistinctKeys(q) == \A a, b \in 1..Len(q) : a # b => q[a][1] # q[b][1]

Requests ==
    UNION {{q \in [1..n -> KeyNames \X IdStrings] : DistinctKeys(q)} :
             n \in 0..MaxSelections}

ErrorResponse(code, text) == [NoResponse EXCEPT !.status = code, !.detail = text]

InitBuild ==
    /\ db_ok \in BOOLEAN
    /\ req \in Requests
    /\ pc = "start"
    /\ components = <<>>
    /\ result = NoResult
    /\ idx = 0
    /\ total_price = 0
    /\ response = NoResponse

\* Lines 175-180: the database check and the empty accumulators.
Start ==
    /\ pc = "start"
    /\ IF ~db_ok
       THEN /\ response' = ErrorResponse(500, "Database not configured")
            /\ pc' = "done"
            /\ idx' = idx
       ELSE /\ response' = response
            /\ pc' = "loop"
            /\ idx' = 1
    /\ components' = <<>>
    /\ total_price' = 0
    /\ UNCHANGED <<result, db_ok, req>>

\* Lines 182-192: one iteration of the loop over req.selections.
Resolve ==
    /\ pc = "loop"
    /\ idx <= Len(req)
    /\ LET ctype == req[idx][1]
           id_str == req[idx][2]
           doc == serialize_doc(FindOne(id_str))
       IN  IF LookupStatus(id_str) = 400
           THEN /\ response' = ErrorResponse(400, "Invalid id for " \o ctype)
                /\ pc' = "done"
                /\ UNCHANGED <<components, total_price, idx>>
           ELSE IF LookupStatus(id_str) = 404
           THEN /\ response' = ErrorResponse(404, "Component not found: " \o ctype)
                /\ pc' = "done"
                /\ UNCHANGED <<components, total_price, idx>>
           ELSE IF ~CanFloat(PriceOf(doc))
           THEN /\ components' = Put(components, ctype, doc)
                /\ response' = ErrorResponse(500, "Internal Server Error")
                /\ pc' = "done"
                /\ UNCHANGED <<total_price, idx>>
           ELSE /\ components' = Put(components, ctype, doc)
                /\ total_price' = total_price + PriceOf(doc).i
                /\ idx' = idx + 1
                /\ UNCHANGED <<response, pc>>
    /\ UNCHANGED <<result, db_ok, req>>

\* Lines 194-201: the engine's verdict and the response built from it.
Respond ==
    /\ pc = "loop"
    /\ idx > Len(req)
    /\ result' = estimate_power_and_validate(components)
    /\ IF result'.status = "raised"
       THEN response' = ErrorResponse(500, "Internal Server Error")
       ELSE \E p \in Round2(total_price) :
              response' = [status |-> 200, detail |-> "", total_price |-> p,
                           estimated_power_w |-> result'.estimated_power_w,
                           is_valid |-> result'.is_valid,
                           issues |-> result'.issues]
    /\ pc' = "done"
    /\ UNCHANGED <<components, db_ok, req, idx, total_price>>

NextBuild == Start \/ Resolve \/ Respond

SpecBuild == InitBuild /\ [][NextBuild]_vars

----------------------------------------------------------------------------
(* The engine's contract, stated on a finished call of Spec *)

Range(q) == {q[n] : n \in 1..Len(q)}

Returned == pc = "done" /\ result.status = "returned"

\* A category is selected; a field of a selected component is present.
Selected(c) == c \in DOMAIN components
Present(c, f) == Selected(c) /\ f \in DOMAIN components[c]

\* The number a present field holds, for the fields int() accepts.
Numeric(c, f) == Present(c, f) /\ CanInt(components[c][f])
Num(c, f) == IntOf(components[c][f])

\* floor(n * 1.5)
FloorOnePointFive(n) == (3 * n) \div 2

\* Every text the PSU rule can append for the powers of the model.
PsuMessages == {MsgPsu(n) : n \in -200..700}

\* C1: estimated_power_w = (CPU.tdp if a CPU is present and has a tdp) +
\* (GPU.tdp if a GPU is present and has a tdp) + (75 if a CPU is present,
\* whatever fields its record has), with or without issues.
C1_PowerIsTdpsPlusBaseline ==
    Returned =>
        result.estimated_power_w =
            (IF Numeric("CPU", "tdp") THEN Num("CPU", "tdp") ELSE 0)
            + (IF Numeric("GPU", "tdp") THEN Num("GPU", "tdp") ELSE 0)
            + (IF Selected("CPU") THEN 75 ELSE 0)

\* C2: is_valid is true if and only if the issues list is empty.
C2_ValidIffNoIssues ==
    Returned => (result.is_valid <=> result.issues = <<>>)

C2_Witness ==
    Returned /\ ~result.is_valid /\ Len(result.issues) >= 2

\* C3: with a PSU selected and psu_wattage present (0 included), the PSU
\* issue is appended if and only if psu_wattage < required, where required
\* = floor(estimated_power_w * 1.5) is the number in the message.
C3_PsuIssueIffBelowRequired ==
    (Returned /\ Numeric("PSU", "psu_wattage")) =>
        LET required == FloorOnePointFive(result.estimated_power_w)
            appended == Range(result.issues) \cap PsuMessages
        IN  IF Num("PSU", "psu_wattage") < required
            THEN appended = {MsgPsu(required)}
            ELSE appended = {}

\* The seven rules as the specification words them: both components
\* selected, both fields present, and the comparison.
SocketViolated ==
    /\ Present("CPU", "socket") /\ Present("Motherboard", "socket")
    /\ PyNotEqual(components["CPU"]["socket"], components["Motherboard"]["socket"])
RamTypeViolated ==
    /\ Present("Motherboard", "ram_type") /\ Present("RAM", "ram_type")
    /\ PyNotEqual(components["Motherboard"]["ram_type"], components["RAM"]["ram_type"])
RamSpeedViolated ==
    /\ Numeric("Motherboard", "ram_speed") /\ Numeric("RAM", "ram_speed")
    /\ Num("RAM", "ram_speed") > Num("Motherboard", "ram_speed")
PsuViolated ==
    /\ Numeric("PSU", "psu_wattage")
    /\ Num("PSU", "psu_wattage") < FloorOnePointFive(result.estimated_power_w)
GpuLengthViolated ==
    /\ Numeric("Case", "case_gpu_max_length_mm") /\ Numeric("GPU", "gpu_length_mm")
    /\ Num("GPU", "gpu_length_mm") > Num("Case", "case_gpu_max_length_mm")
CoolerHeightViolated ==
    /\ Numeric("Case", "case_cooler_max_height_mm") /\ Numeric("Cooler", "cooler_height_mm")
    /\ Num("Cooler", "cooler_height_mm") > Num("Case", "case_cooler_max_height_mm")
CoolerTdpViolated ==
    /\ Numeric("Cooler", "cooler_tdp_rating") /\ Numeric("CPU", "tdp")
    /\ Num("Cooler", "cooler_tdp_rating") < Num("CPU", "tdp")

\* C4: the issues list holds one message for each violated rule and
\* nothing else, without duplicates, in the order socket, RAM type, RAM
\* speed, PSU, GPU length, cooler height, cooler capacity.
C4_OneMessagePerViolatedRuleInOrder ==
    Returned =>
        result.issues =
            If(SocketViolated, MsgSocket)
            \o If(RamTypeViolated, MsgRamType)
            \o If(RamSpeedViolated, MsgRamSpeed)
            \o If(PsuViolated, MsgPsu(FloorOnePointFive(result.estimated_power_w)))
            \o If(GpuLengthViolated, MsgGpuLength)
            \o If(CoolerHeightViolated, MsgCoolerHeight)
            \o If(CoolerTdpViolated, MsgCoolerTdp)

\* C5: a rule whose component is not selected on either side, or whose
\* compared field is absent on either side, contributes no message,
\* whatever the rest of the selection holds.
C5_MissingFieldSkipsRule ==
    Returned =>
        /\ ~(Present("CPU", "socket") /\ Present("Motherboard", "socket"))
              => MsgSocket \notin Range(result.issues)
        /\ ~(Present("Motherboard", "ram_type") /\ Present("RAM", "ram_type"))
              => MsgRamType \notin Range(result.issues)
        /\ ~(Present("Motherboard", "ram_speed") /\ Present("RAM", "ram_speed"))
              => MsgRamSpeed \notin Range(result.issues)
        /\ ~Present("PSU", "psu_wattage")
              => Range(result.issues) \cap PsuMessages = {}
        /\ ~(Present("Case", "case_gpu_max_length_mm") /\ Present("GPU", "gpu_length_mm"))
              => MsgGpuLength \notin Range(result.issues)
        /\ ~(Present("Case", "case_cooler_max_height_mm")
             /\ Present("Cooler", "cooler_height_mm"))
              => MsgCoolerHeight \notin Range(result.issues)
        /\ ~(Present("Cooler", "cooler_tdp_rating") /\ Present("CPU", "tdp"))
              => MsgCoolerTdp \notin Range(result.issues)

\* A CPU with a socket beside a motherboard without one, a fast RAM beside
\* that motherboard without a ram_speed, and another rule violated.
C5_Witness ==
    /\ Returned
    /\ Present("CPU", "socket") /\ Selected("Motherboard")
    /\ ~Present("Motherboard", "socket")
    /\ Present("RAM", "ram_speed") /\ ~Present("Motherboard", "ram_speed")
    /\ result.issues = <<MsgRamType>>

\* C6: with a Cooler and a CPU selected and cooler_tdp_rating and tdp both
\* present (integers, a rating of 0 included), the cooler capacity issue is
\* in the result if and only if cooler_tdp_rating < tdp.
C6_CoolerIssueIffRatingBelowTdp ==
    (/\ Returned
     /\ Present("Cooler", "cooler_tdp_rating") /\ Present("CPU", "tdp")
     /\ components["Cooler"]["cooler_tdp_rating"].t = "int"
     /\ components["CPU"]["tdp"].t = "int") =>
        (MsgCoolerTdp \in Range(result.issues)
           <=> Num("Cooler", "cooler_tdp_rating") < Num("CPU", "tdp"))

\* C7: the empty selection gives is_valid = true, issues = [] and
\* estimated_power_w = 0.
C7_EmptySelection ==
    (pc = "done" /\ DOMAIN components = {}) =>
        /\ result.status = "returned"
        /\ result.is_valid
        /\ result.issues = <<>>
        /\ result.estimated_power_w = 0

C7_Witness == pc = "done" /\ DOMAIN components = {} /\ result.status = "returned"

\* Every present field other than the names (socket, ram_type, name) is a
\* Python int.
AllNumericFieldsAreInts ==
    \A c \in DOMAIN components : \A f \in DOMAIN components[c] :
        f \notin {"socket", "ram_type", "name"} => components[c][f].t = "int"

\* C8: when the present numeric fields are integers, estimated_power_w is a
\* non-negative integer.
C8_PowerIsNonNegative ==
    (Returned /\ AllNumericFieldsAreInts) => result.estimated_power_w \in Nat

\* A selected component holds a present numeric field int() rejects.
HasMalformedField ==
    \E c \in DOMAIN components : \E f \in DOMAIN components[c] :
        f \notin {"socket", "ram_type", "name"} /\ ~CanInt(components[c][f])

Bad(c, f) ==
    Present(c, f) /\ Truthy(components[c][f]) /\ ~CanInt(components[c][f])
Usable(c, f) == Present(c, f) /\ Truthy(components[c][f])

\* Such a field of a two-sided rule is read when the other side's field is
\* there to compare it with.
BadInPair(c1, f1, c2, f2) ==
    (Bad(c1, f1) /\ Usable(c2, f2)) \/ (Bad(c2, f2) /\ Usable(c1, f1))

----------------------------------------------------------------------------
(* The request handler, stated on the runs of SpecBuild *)

\* The identifier at position n resolves to a document.
Resolves(n) == ObjectIdParses(req[n][2]) /\ req[n][2] \in DOMAIN Collection
AllResolve == \A n \in 1..Len(req) : Resolves(n)

\* The sum of the prices of the documents the request names, in
\* thousandths; a document without a price counts 0.
RECURSIVE SumOfPrices(_)
SumOfPrices(n) ==
    IF n = 0 THEN 0
    ELSE SumOfPrices(n - 1) + PriceOf(Collection[req[n][2]]).i

EngineInvoked == result.status # "none"
CarriesVerdict == response.status = 200

\* C10 as stated: an identifier that is malformed or unresolved ends the
\* request with 400 or 404 and the engine is never invoked; the engine is
\* invoked only after every identifier resolved, and total_price is then
\* the sum of the prices.
C10_LookupErrorBeforeEngine ==
    /\ (pc = "done" /\ ~AllResolve) =>
          (response.status \in {400, 404} /\ ~EngineInvoked /\ ~CarriesVerdict)
    /\ EngineInvoked => AllResolve
    /\ CarriesVerdict => response.total_price = SumOfPrices(Len(req))

\* The first identifier that does not resolve, and whether the prices of
\* the documents before position n are numbers.
FirstUnresolved ==
    CHOOSE n \in 1..Len(req) : ~Resolves(n) /\ \A k \in 1..(n - 1) : Resolves(k)
PricesParseBefore(n) ==
    \A k \in 1..(n - 1) : CanFloat(PriceOf(Collection[req[k][2]]))

\* C10 as amended: an identifier that is malformed or unresolved ends the
\* request with an error and the engine is not invoked, so no verdict is
\* sent. The error is 400 (malformed) or 404 (unresolved) for the first
\* such identifier when the database is configured and the prices of the
\* documents resolved before it are numbers, and 500 otherwise. The engine
\* is invoked only after every identifier resolved, and total_price is then
\* the sum of the prices rounded to two decimals.
C10_LookupErrorBeforeEngineWhenDbConfigured ==
    /\ (pc = "done" /\ ~AllResolve) =>
          /\ ~EngineInvoked /\ ~CarriesVerdict
          /\ response.status =
                IF ~db_ok \/ ~PricesParseBefore(FirstUnresolved) THEN 500
                ELSE IF ObjectIdParses(req[FirstUnresolved][2]) THEN 404
                ELSE 400
    /\ EngineInvoked => (AllResolve /\ db_ok /\ idx = Len(req) + 1)
    /\ CarriesVerdict =>
          /\ EngineInvoked
          /\ response.total_price % 10 = 0
          /\ response.total_price - SumOfPrices(Len(req)) \in -5..5

\* A request whose first identifier resolves and whose second does not,
\* ended by the lookup error.
C10_Witness ==
    /\ pc = "done" /\ db_ok /\ Len(req) >= 2
    /\ Resolves(1) /\ ~Resolves(2)
    /\ response.status = 404
    /\ ~EngineInvoked

====
